---- MODULE Spec2Model ----
(***************************************************************************)
(* A model of demo.py, the SMIRK inference script: the straight-line      *)
(* control flow of __main__ (flags, landmark detection, crop, encoder /   *)
(* FLAME / renderer, grid composition, optional generator, file write),   *)
(* the similarity transform estimated by crop_face, the coordinate maps   *)
(* of the crop / uncrop warps, and the point-mask routine of the          *)
(* generator branch.                                                      *)
(*                                                                         *)
(* Coordinates are exact rationals: a point is [x, y, d] standing for     *)
(* (x/d, y/d); an affine map is [m00 .. m12, d] standing for the matrix   *)
(* ((m00, m01, m02), (m10, m11, m12)) / d.  d = 0 stands for NaN.          *)
(***************************************************************************)
EXTENDS Integers, Sequences, FiniteSets, TLC

VARIABLES
    \* ---- __main__ ----
    pc,                     \* position in the script
    args,                   \* parsed flags: crop, use_smirk_generator, render_orig
    out_dir_exists,         \* os.path.exists(args.out_path)
    smirk_generator,        \* TRUE once SmirkGenerator has been constructed
    image,                  \* cv2.imread result
    kpt_mediapipe,
    tform,
    cropped_image,
    cropped_kpt_mediapipe,
    rendered_img,
    grid,                   \* sequence of panels concatenated along dim 3
    reconstructed_img,
    steps,                  \* the steps performed so far, in order
    makedirs_called,
    written,                \* the image handed to cv2.imwrite, or None
    \* ---- crop_face as a function of its arguments ----
    cf_pc, cf_frame, cf_landmarks, cf_scale, cf_image_size, cf_tform,
    \* ---- point mask of the generator branch ----
    pm_pc, npoints, rsing, rscale, rbound, pmask, pm_bi

main_vars == <<pc, args, out_dir_exists, smirk_generator, image,
               kpt_mediapipe, tform, cropped_image, cropped_kpt_mediapipe,
               rendered_img, grid, reconstructed_img, steps, makedirs_called,
               written>>
cf_vars == <<cf_pc, cf_frame, cf_landmarks, cf_scale, cf_image_size, cf_tform>>
pm_vars == <<pm_pc, npoints, rsing, rscale, rbound, pmask, pm_bi>>
vars == <<main_vars, cf_vars, pm_vars>>

(***************************************************************************)
(* Bounds of the model.                                                    *)
(***************************************************************************)
MaxCoord == 2        \* landmark coordinates range over 0..MaxCoord
MaxDim == 2          \* image height and width range over MaxDim-1..MaxDim
MaxScaleTenths == 15 \* crop_face scale ranges over 10/10 .. MaxScaleTenths/10
MaxPoints == 27      \* npoints.size(1) ranges over 0..MaxPoints
NumLandmarks == 2    \* number of landmarks returned by run_mediapipe
RandRes == 4         \* torch.rand draws u / RandRes, u in 0..RandRes-1
MaskW == 3           \* width of the mask grid in the point-mask model
MaskH == 2           \* height of the mask grid in the point-mask model

(***************************************************************************)
(* Program constants.                                                      *)
(***************************************************************************)
image_size == 224
mask_ratio_mul == 5
CropScaleTenths == 14   \* scale=1.4 in the call of crop_face
Batch == 1              \* one image per run: unsqueeze(0)

\* None, as the empty array, so that it compares with arrays
None == << >>

(***************************************************************************)
(* Exact rational arithmetic.                                              *)
(***************************************************************************)
Abs(n) == IF n < 0 THEN -n ELSE n

RECURSIVE GCD(_, _)
GCD(a, b) == IF b = 0 THEN a ELSE GCD(b, a % b)

\* floor of n / d for n >= 0, d > 0: int() and .long() of a non-negative value
Trunc(n, d) == n \div d

NaNPoint == [x |-> 0, y |-> 0, d |-> 0]
NaNMap == [m00 |-> 0, m01 |-> 0, m02 |-> 0, m10 |-> 0, m11 |-> 0, m12 |-> 0, d |-> 0]

Pt(x, y) == [x |-> x, y |-> y, d |-> 1]

NormPoint(p) ==
    IF p.d = 0 THEN NaNPoint
    ELSE LET g == GCD(GCD(Abs(p.x), Abs(p.y)), Abs(p.d))
             s == IF p.d < 0 THEN -1 ELSE 1
         IN [x |-> s * (p.x \div g), y |-> s * (p.y \div g), d |-> s * (p.d \div g)]

NormMap(t) ==
    IF t.d = 0 THEN NaNMap
    ELSE LET g == GCD(GCD(GCD(Abs(t.m00), Abs(t.m01)), GCD(Abs(t.m02), Abs(t.m10))),
                      GCD(GCD(Abs(t.m11), Abs(t.m12)), Abs(t.d)))
             s == IF t.d < 0 THEN -1 ELSE 1
         IN [m00 |-> s * (t.m00 \div g), m01 |-> s * (t.m01 \div g),
             m02 |-> s * (t.m02 \div g), m10 |-> s * (t.m10 \div g),
             m11 |-> s * (t.m11 \div g), m12 |-> s * (t.m12 \div g),
             d |-> s * (t.d \div g)]

IdentityMap == [m00 |-> 1, m01 |-> 0, m02 |-> 0, m10 |-> 0, m11 |-> 1, m12 |-> 0, d |-> 1]

\* the matrix-vector product params . (x, y, 1)^T, first two rows
Apply(t, p) ==
    NormPoint([x |-> t.m00 * p.x + t.m01 * p.y + t.m02 * p.d,
               y |-> t.m10 * p.x + t.m11 * p.y + t.m12 * p.d,
               d |-> t.d * p.d])

\* the map p |-> outer(inner(p))
Compose(outer, inner) ==
    NormMap([m00 |-> outer.m00 * inner.m00 + outer.m01 * inner.m10,
             m01 |-> outer.m00 * inner.m01 + outer.m01 * inner.m11,
             m02 |-> outer.m00 * inner.m02 + outer.m01 * inner.m12 + outer.m02 * inner.d,
             m10 |-> outer.m10 * inner.m00 + outer.m11 * inner.m10,
             m11 |-> outer.m10 * inner.m01 + outer.m11 * inner.m11,
             m12 |-> outer.m10 * inner.m02 + outer.m11 * inner.m12 + outer.m12 * inner.d,
             d |-> outer.d * inner.d])

\* tform.inverse: the inverse of the homogeneous matrix (NaN when singular)
Inverse(t) ==
    LET det == t.m00 * t.m11 - t.m01 * t.m10
    IN NormMap([m00 |-> t.d * t.m11, m01 |-> -(t.d * t.m01),
                m02 |-> t.m01 * t.m12 - t.m11 * t.m02,
                m10 |-> -(t.d * t.m10), m11 |-> t.d * t.m00,
                m12 |-> t.m10 * t.m02 - t.m00 * t.m12,
                d |-> det])

(***************************************************************************)
(* crop_face and the library calls it relies on.                           *)
(***************************************************************************)
RECURSIVE SeqMin(_), SeqMax(_)
SeqMin(s) == IF Len(s) = 1 THEN s[1]
             ELSE LET m == SeqMin(Tail(s)) IN IF s[1] < m THEN s[1] ELSE m
SeqMax(s) == IF Len(s) = 1 THEN s[1]
             ELSE LET m == SeqMax(Tail(s)) IN IF s[1] > m THEN s[1] ELSE m

Column(landmarks, i) == [k \in 1..Len(landmarks) |-> landmarks[k][i]]

\* estimate_transform("similarity", src, dst) for three point pairs: the
\* least-squares similarity (Umeyama), which in the plane is the complex
\* least-squares fit  a = sum conj(z) w / sum |z|^2  on centred points,
\* t = mean(dst) - a * mean(src).  src2 holds the source points doubled
\* (src = src2 / 2); the result is NaN when the source points coincide.
EstimateSimilarity(src2, dst) ==
    LET Sx == src2[1][1] + src2[2][1] + src2[3][1]
        Sy == src2[1][2] + src2[2][2] + src2[3][2]
        Tx == dst[1][1] + dst[2][1] + dst[3][1]
        Ty == dst[1][2] + dst[2][2] + dst[3][2]
        zx(i) == 3 * src2[i][1] - Sx
        zy(i) == 3 * src2[i][2] - Sy
        wx(i) == 3 * dst[i][1] - Tx
        wy(i) == 3 * dst[i][2] - Ty
        P == zx(1) * wx(1) + zy(1) * wy(1) + zx(2) * wx(2) + zy(2) * wy(2)
             + zx(3) * wx(3) + zy(3) * wy(3)
        Q == zx(1) * wy(1) - zy(1) * wx(1) + zx(2) * wy(2) - zy(2) * wx(2)
             + zx(3) * wy(3) - zy(3) * wx(3)
        D == zx(1) * zx(1) + zy(1) * zy(1) + zx(2) * zx(2) + zy(2) * zy(2)
             + zx(3) * zx(3) + zy(3) * zy(3)
    IN NormMap([m00 |-> 6 * P, m01 |-> -(6 * Q),
                m02 |-> Q * Sy - P * Sx + D * Tx,
                m10 |-> 6 * Q, m11 |-> 6 * P,
                m12 |-> D * Ty - Q * Sx - P * Sy,
                d |-> 3 * D])

CropSize_Unscaled(old_size2, scale10) == Trunc(old_size2, 2)

\* int(old_size * scale), old_size = old_size2 / 2, scale = scale10 / 10
CropSize(old_size2, scale10) == Trunc(old_size2 * scale10, 20)

\* scale10 is the scale in tenths; lengths with suffix 2 are doubled
crop_face(frame, landmarks, scale10, img_size) ==
    LET left == SeqMin(Column(landmarks, 1))
        right == SeqMax(Column(landmarks, 1))
        top == SeqMin(Column(landmarks, 2))
        bottom == SeqMax(Column(landmarks, 2))
        h == frame.h
        w == frame.w
        old_size2 == right - left + bottom - top
        center2 == <<2 * right - (right - left), 2 * bottom - (bottom - top)>>
        size == CropSize(old_size2, scale10)
        src_pts2 == << <<center2[1] - size, center2[2] - size>>,
                       <<center2[1] - size, center2[2] + size>>,
                       <<center2[1] + size, center2[2] - size>> >>
        DST_PTS == << <<0, 0>>, <<0, img_size - 1>>, <<img_size - 1, 0>> >>
    IN EstimateSimilarity(src_pts2, DST_PTS)

(***************************************************************************)
(* Images: [h, w] is the shape, content names what the image shows,       *)
(* via maps a pixel position of this image to the position of the content *)
(* it shows there, color is the channel order.                             *)
(***************************************************************************)
Dims == (MaxDim - 1)..MaxDim
Coords == 0..MaxCoord
Landmark3 == {<<x, y, 0>> : x \in Coords, y \in Coords}

\* the landmark arrays, up to the order of the landmarks, which the script
\* does not look at: those listed in row-major order of their position
InOrder(kpt) ==
    \A k \in 1..(Len(kpt) - 1) :
        kpt[k][1] * (MaxCoord + 1) + kpt[k][2]
            <= kpt[k + 1][1] * (MaxCoord + 1) + kpt[k + 1][2]

LandmarkSeqs == {kpt \in [1..NumLandmarks -> Landmark3] : InOrder(kpt)}

\* kpt_mediapipe[..., :2]
Take2(kpt) == [k \in 1..Len(kpt) |-> <<kpt[k][1], kpt[k][2]>>]

\* skimage warp(img, inverse_map, output_shape): the output pixel q is
\* sampled from img at inverse_map(q)
Warp(img, inverse_map, oh, ow) ==
    [h |-> oh, w |-> ow, content |-> img.content,
     via |-> Compose(img.via, inverse_map), color |-> img.color]

\* the pixel-centre map of cv2.resize and of F.interpolate(mode="bilinear"):
\* the output pixel q is sampled at ((q + 1/2) * in / out - 1/2)
ResizeMap(h, w, oh, ow) ==
    NormMap([m00 |-> 2 * w * oh, m01 |-> 0, m02 |-> (w - ow) * oh,
             m10 |-> 0, m11 |-> 2 * h * ow, m12 |-> (h - oh) * ow,
             d |-> 2 * ow * oh])

Resize(img, oh, ow) ==
    [h |-> oh, w |-> ow, content |-> img.content,
     via |-> Compose(img.via, ResizeMap(img.h, img.w, oh, ow)), color |-> img.color]

\* cv2.cvtColor(img, cv2.COLOR_BGR2RGB) swaps the first and third channel
CvtColor(img) ==
    [img EXCEPT !.color = IF img.color = "BGR" THEN "RGB" ELSE "BGR"]

\* torch.cat(panels, dim=3): panels side by side
Cat3(panels, img) == Append(panels, img)

GridHeight(panels) == panels[1].h
RECURSIVE GridWidth(_)
GridWidth(panels) == IF panels = <<>> THEN 0 ELSE panels[1].w + GridWidth(Tail(panels))

(***************************************************************************)
(* __main__                                                                *)
(***************************************************************************)
Flags == [crop : BOOLEAN, use_smirk_generator : BOOLEAN, render_orig : BOOLEAN]

MainInit ==
    /\ pc = "load_checkpoint"
    /\ args \in Flags
    /\ out_dir_exists \in BOOLEAN
    /\ smirk_generator = FALSE
    /\ image = None
    /\ kpt_mediapipe = None
    /\ tform = None
    /\ cropped_image = None
    /\ cropped_kpt_mediapipe = None
    /\ rendered_img = None
    /\ grid = <<>>
    /\ reconstructed_img = None
    /\ steps = <<>>
    /\ makedirs_called = FALSE
    /\ written = None

LoadCheckpoint_AlwaysGenerator ==
    /\ pc = "load_checkpoint"
    /\ smirk_generator' = TRUE
    /\ steps' = Append(steps, "load_checkpoint")
    /\ pc' = "imread"
    /\ UNCHANGED <<args, out_dir_exists, image, kpt_mediapipe, tform, cropped_image,
                   cropped_kpt_mediapipe, rendered_img, grid, reconstructed_img,
                   makedirs_called, written>>

\* lines 87-116: encoder and (with the flag) generator built and loaded from
\* the checkpoint, FLAME and renderer built
LoadCheckpoint ==
    /\ pc = "load_checkpoint"
    /\ smirk_generator' = args.use_smirk_generator
    /\ steps' = Append(steps, "load_checkpoint")
    /\ pc' = "imread"
    /\ UNCHANGED <<args, out_dir_exists, image, kpt_mediapipe, tform, cropped_image,
                   cropped_kpt_mediapipe, rendered_img, grid, reconstructed_img,
                   makedirs_called, written>>

\* lines 120-121
ReadImage ==
    /\ pc = "imread"
    /\ \E h \in Dims, w \in Dims :
         image' = [h |-> h, w |-> w, content |-> "input", via |-> IdentityMap,
                   color |-> "BGR"]
    /\ pc' = "run_mediapipe"
    /\ UNCHANGED <<args, out_dir_exists, smirk_generator, kpt_mediapipe, tform,
                   cropped_image, cropped_kpt_mediapipe, rendered_img, grid,
                   reconstructed_img, steps, makedirs_called, written>>

\* line 123: run_mediapipe returns None or an array of landmarks
DetectLandmarks ==
    /\ pc = "run_mediapipe"
    /\ kpt_mediapipe' \in {None} \cup LandmarkSeqs
    /\ steps' = Append(steps, "detect_landmarks")
    /\ pc' = "crop"
    /\ UNCHANGED <<args, out_dir_exists, smirk_generator, image, tform, cropped_image,
                   cropped_kpt_mediapipe, rendered_img, grid, reconstructed_img,
                   makedirs_called, written>>

\* lines 126-131
CropExit ==
    /\ pc = "crop"
    /\ args.crop
    /\ kpt_mediapipe = None
    /\ pc' = "exited"
    /\ UNCHANGED <<args, out_dir_exists, smirk_generator, image, kpt_mediapipe, tform,
                   cropped_image, cropped_kpt_mediapipe, rendered_img, grid,
                   reconstructed_img, steps, makedirs_called, written>>

\* lines 133-145
CropFace ==
    /\ pc = "crop"
    /\ args.crop
    /\ kpt_mediapipe # None
    /\ LET kpt == Take2(kpt_mediapipe)
           tf == crop_face(image, kpt, CropScaleTenths, image_size)
       IN /\ kpt_mediapipe' = kpt
          /\ tform' = tf
          /\ cropped_image' = Warp(image, Inverse(tf), 224, 224)
          /\ cropped_kpt_mediapipe' =
                 [k \in 1..Len(kpt) |-> Apply(tf, Pt(kpt[k][1], kpt[k][2]))]
    /\ steps' = Append(steps, "crop")
    /\ pc' = "preprocess"
    /\ UNCHANGED <<args, out_dir_exists, smirk_generator, image, rendered_img, grid,
                   reconstructed_img, makedirs_called, written>>

\* lines 146-148
NoCrop ==
    /\ pc = "crop"
    /\ ~args.crop
    /\ cropped_image' = image
    /\ cropped_kpt_mediapipe' = kpt_mediapipe
    /\ pc' = "preprocess"
    /\ UNCHANGED <<args, out_dir_exists, smirk_generator, image, kpt_mediapipe, tform,
                   rendered_img, grid, reconstructed_img, steps, makedirs_called,
                   written>>

\* lines 150-155: to RGB, resized to 224 x 224, to a tensor on the device
Preprocess ==
    /\ pc = "preprocess"
    /\ cropped_image' = Resize(CvtColor(cropped_image), 224, 224)
    /\ pc' = "encoder"
    /\ UNCHANGED <<args, out_dir_exists, smirk_generator, image, kpt_mediapipe, tform,
                   cropped_kpt_mediapipe, rendered_img, grid, reconstructed_img, steps,
                   makedirs_called, written>>

\* line 157
EncoderForward ==
    /\ pc = "encoder"
    /\ steps' = Append(steps, "encoder")
    /\ pc' = "flame"
    /\ UNCHANGED <<args, out_dir_exists, smirk_generator, image, kpt_mediapipe, tform,
                   cropped_image, cropped_kpt_mediapipe, rendered_img, grid,
                   reconstructed_img, makedirs_called, written>>

\* line 159
FlameForward ==
    /\ pc = "flame"
    /\ steps' = Append(steps, "flame")
    /\ pc' = "renderer"
    /\ UNCHANGED <<args, out_dir_exists, smirk_generator, image, kpt_mediapipe, tform,
                   cropped_image, cropped_kpt_mediapipe, rendered_img, grid,
                   reconstructed_img, makedirs_called, written>>

\* the image the renderer returns: the mesh drawn in the frame of the
\* network input
RendererOutput(input) ==
    [h |-> input.h, w |-> input.w, content |-> "render", via |-> IdentityMap,
     color |-> "RGB"]

\* lines 160-167
RendererForward ==
    /\ pc = "renderer"
    /\ rendered_img' = RendererOutput(cropped_image)
    /\ steps' = Append(steps, "renderer")
    /\ pc' = "grid"
    /\ UNCHANGED <<args, out_dir_exists, smirk_generator, image, kpt_mediapipe, tform,
                   cropped_image, cropped_kpt_mediapipe, grid, reconstructed_img,
                   makedirs_called, written>>

UncropSamplingMap_Inverse(t) == Inverse(t)

\* the map handed to warp to paste a 224 x 224 result back into the frame of
\* the original image
UncropSamplingMap(t) == t

UncropShape_Square(img) == <<224, 224>>

\* the output shape of the paste-back
UncropShape(img) == <<img.h, img.w>>

\* lines 170-188 and 260-284: a 224 x 224 result in the original image's size
ToOriginalSize(img) ==
    IF args.crop
    THEN Warp(img, UncropSamplingMap(tform), UncropShape(image)[1], UncropShape(image)[2])
    ELSE Resize(img, image.h, image.w)

CompositeGrid_ChecksLandmarksFirst ==
    /\ pc = "grid"
    /\ IF args.use_smirk_generator /\ kpt_mediapipe = None
       THEN /\ pc' = "exited"
            /\ UNCHANGED <<grid, steps>>
       ELSE /\ grid' = IF args.render_orig
                       THEN Cat3(<<CvtColor(image)>>, ToOriginalSize(rendered_img))
                       ELSE Cat3(<<cropped_image>>, rendered_img)
            /\ steps' = Append(steps, "composite")
            /\ pc' = "generator"
    /\ UNCHANGED <<args, out_dir_exists, smirk_generator, image, kpt_mediapipe, tform,
                   cropped_image, cropped_kpt_mediapipe, rendered_img,
                   reconstructed_img, makedirs_called, written>>

\* lines 169-199
CompositeGrid ==
    /\ pc = "grid"
    /\ grid' = IF args.render_orig
               THEN Cat3(<<CvtColor(image)>>, ToOriginalSize(rendered_img))
               ELSE Cat3(<<cropped_image>>, rendered_img)
    /\ steps' = Append(steps, "composite")
    /\ pc' = "generator"
    /\ UNCHANGED <<args, out_dir_exists, smirk_generator, image, kpt_mediapipe, tform,
                   cropped_image, cropped_kpt_mediapipe, rendered_img,
                   reconstructed_img, makedirs_called, written>>

\* line 202, flag not set
SkipGenerator ==
    /\ pc = "generator"
    /\ ~args.use_smirk_generator
    /\ pc' = "write"
    /\ UNCHANGED <<args, out_dir_exists, smirk_generator, image, kpt_mediapipe, tform,
                   cropped_image, cropped_kpt_mediapipe, rendered_img, grid,
                   reconstructed_img, steps, makedirs_called, written>>

GeneratorExit_FallsThrough ==
    /\ pc = "generator"
    /\ args.use_smirk_generator
    /\ kpt_mediapipe = None
    /\ pc' = "write"
    /\ UNCHANGED <<args, out_dir_exists, smirk_generator, image, kpt_mediapipe, tform,
                   cropped_image, cropped_kpt_mediapipe, rendered_img, grid,
                   reconstructed_img, steps, makedirs_called, written>>

\* lines 202-207
GeneratorExit ==
    /\ pc = "generator"
    /\ args.use_smirk_generator
    /\ kpt_mediapipe = None
    /\ pc' = "exited"
    /\ UNCHANGED <<args, out_dir_exists, smirk_generator, image, kpt_mediapipe, tform,
                   cropped_image, cropped_kpt_mediapipe, rendered_img, grid,
                   reconstructed_img, steps, makedirs_called, written>>

\* lines 209-255: hull mask, point mask, masked image, generator input
BuildGeneratorInput ==
    /\ pc = "generator"
    /\ args.use_smirk_generator
    /\ kpt_mediapipe # None
    /\ steps' = Append(steps, "mask")
    /\ pc' = "generator_forward"
    /\ UNCHANGED <<args, out_dir_exists, smirk_generator, image, kpt_mediapipe, tform,
                   cropped_image, cropped_kpt_mediapipe, rendered_img, grid,
                   reconstructed_img, makedirs_called, written>>

\* the image the generator returns for an input of the render's shape
GeneratorOutput(input) ==
    [h |-> input.h, w |-> input.w, content |-> "reconstruction", via |-> IdentityMap,
     color |-> "RGB"]

GeneratorForward_SkipsComposite ==
    /\ pc = "generator_forward"
    /\ smirk_generator
    /\ reconstructed_img' = GeneratorOutput(rendered_img)
    /\ steps' = Append(steps, "generator")
    /\ pc' = "write"
    /\ UNCHANGED <<args, out_dir_exists, smirk_generator, image, kpt_mediapipe, tform,
                   cropped_image, cropped_kpt_mediapipe, rendered_img, grid,
                   makedirs_called, written>>

\* line 257
GeneratorForward ==
    /\ pc = "generator_forward"
    /\ smirk_generator
    /\ reconstructed_img' = GeneratorOutput(rendered_img)
    /\ steps' = Append(steps, "generator")
    /\ pc' = "grid_reconstruction"
    /\ UNCHANGED <<args, out_dir_exists, smirk_generator, image, kpt_mediapipe, tform,
                   cropped_image, cropped_kpt_mediapipe, rendered_img, grid,
                   makedirs_called, written>>

\* lines 259-288
CompositeReconstruction ==
    /\ pc = "grid_reconstruction"
    /\ grid' = IF args.render_orig
               THEN Cat3(grid, ToOriginalSize(reconstructed_img))
               ELSE Cat3(grid, reconstructed_img)
    /\ steps' = Append(steps, "composite")
    /\ pc' = "write"
    /\ UNCHANGED <<args, out_dir_exists, smirk_generator, image, kpt_mediapipe, tform,
                   cropped_image, cropped_kpt_mediapipe, rendered_img,
                   reconstructed_img, makedirs_called, written>>

\* lines 290-299
WriteOutput ==
    /\ pc = "write"
    /\ makedirs_called' = ~out_dir_exists
    /\ out_dir_exists' = TRUE
    /\ written' = CvtColor([h |-> GridHeight(grid), w |-> GridWidth(grid),
                             panels |-> grid, color |-> grid[1].color])
    /\ steps' = Append(steps, "write")
    /\ pc' = "done"
    /\ UNCHANGED <<args, smirk_generator, image, kpt_mediapipe, tform, cropped_image,
                   cropped_kpt_mediapipe, rendered_img, grid, reconstructed_img>>

MainNext ==
    \/ LoadCheckpoint \/ ReadImage \/ DetectLandmarks
    \/ CropExit \/ CropFace \/ NoCrop
    \/ Preprocess \/ EncoderForward \/ FlameForward \/ RendererForward
    \/ CompositeGrid
    \/ SkipGenerator \/ GeneratorExit \/ BuildGeneratorInput
    \/ GeneratorForward \/ CompositeReconstruction
    \/ WriteOutput

(***************************************************************************)
(* crop_face called on arbitrary arguments.                                *)
(***************************************************************************)
Frames == [h : Dims, w : Dims]
Landmark2Seqs == {kpt \in [1..NumLandmarks -> Coords \X Coords] : InOrder(kpt)}
ImageSizes == {image_size, image_size \div 2}

CfInit ==
    /\ cf_pc = "call"
    /\ cf_frame \in Frames
    /\ cf_landmarks \in Landmark2Seqs
    /\ cf_scale \in 10..MaxScaleTenths
    /\ cf_image_size \in ImageSizes
    /\ cf_tform = None

CallCropFace ==
    /\ cf_pc = "call"
    /\ cf_tform' = crop_face(cf_frame, cf_landmarks, cf_scale, cf_image_size)
    /\ cf_pc' = "returned"
    /\ UNCHANGED <<cf_frame, cf_landmarks, cf_scale, cf_image_size>>

CfNext == CallCropFace

(***************************************************************************)
(* The point mask of the generator branch, lines 222-237.                  *)
(***************************************************************************)
BatchIdx == 0..(Batch - 1)
MaskCells == (0..(MaskH - 1)) \X (0..(MaskW - 1))     \* <<row, column>>
NumCells == MaskW * MaskH

\* a sequence of n sampled points <<x, y>> inside the mask
PointSeq(n, seed, stride) ==
    [k \in 1..n |-> LET idx == (seed + (k - 1) * stride) % NumCells
                    IN <<idx % MaskW, idx \div MaskW>>]

PmInit ==
    /\ pm_pc = "sample"
    /\ npoints = None
    /\ rsing = None
    /\ rscale = None
    /\ rbound = None
    /\ pmask = None
    /\ pm_bi = 0

\* lines 222-227: mesh_based_mask_uniform_faces returns the sampled points
SamplePoints ==
    /\ pm_pc = "sample"
    /\ \E n \in 0..MaxPoints, seed \in 0..(NumCells - 1), stride \in 0..(NumCells - 1) :
         npoints' = [bi \in BatchIdx |-> PointSeq(n, seed, stride)]
    /\ pm_pc' = "zeros"
    /\ UNCHANGED <<rsing, rscale, rbound, pmask, pm_bi>>

\* line 229
ZeroMask ==
    /\ pm_pc = "zeros"
    /\ pmask' = [bi \in BatchIdx |-> [c \in MaskCells |-> 0]]
    /\ pm_pc' = "random"
    /\ UNCHANGED <<npoints, rsing, rscale, rbound, pm_bi>>

\* lines 230-233: rsing = randint(0, 2) * 2 - 1; rscale = rand * (mul - 1) + 1,
\* kept as the numerator over RandRes
DrawRandom ==
    /\ pm_pc = "random"
    /\ rsing' \in [BatchIdx -> {r * 2 - 1 : r \in 0..1}]
    /\ rscale' \in [BatchIdx -> {u * (mask_ratio_mul - 1) + RandRes : u \in 0..(RandRes - 1)}]
    /\ pm_pc' = "rbound"
    /\ UNCHANGED <<npoints, rbound, pmask, pm_bi>>

NumSampled == Len(npoints[0])       \* npoints.size(1)

RBoundOf_NoDivision(n, sgn, scaleNum) ==
    IF sgn = 1 THEN Trunc(n * scaleNum, RandRes)
    ELSE Trunc(n * RandRes, scaleNum)

\* (n * (1 / mask_ratio_mul) * rscale ** rsing).long()
RBoundOf(n, sgn, scaleNum) ==
    IF sgn = 1 THEN Trunc(n * scaleNum, mask_ratio_mul * RandRes)
    ELSE Trunc(n * RandRes, mask_ratio_mul * scaleNum)

\* line 234
ComputeRBound ==
    /\ pm_pc = "rbound"
    /\ rbound' = [bi \in BatchIdx |-> RBoundOf(NumSampled, rsing[bi], rscale[bi])]
    /\ pm_bi' = 0
    /\ pm_pc' = "scatter"
    /\ UNCHANGED <<npoints, rsing, rscale, pmask>>

\* the slice seq[:n]
SliceTo(seq, n) == SubSeq(seq, 1, IF n < Len(seq) THEN n ELSE Len(seq))

\* pmask[bi, :, ys, xs] = 1
Scatter(mask, pts) ==
    [c \in MaskCells |->
        IF \E k \in 1..Len(pts) : c = <<pts[k][2], pts[k][1]>> THEN 1 ELSE mask[c]]

\* lines 236-237, one iteration of the loop
ScatterPoints ==
    /\ pm_pc = "scatter"
    /\ pm_bi < Batch
    /\ pmask' = [pmask EXCEPT ![pm_bi] =
                    Scatter(pmask[pm_bi], SliceTo(npoints[pm_bi], rbound[pm_bi]))]
    /\ pm_bi' = pm_bi + 1
    /\ UNCHANGED <<pm_pc, npoints, rsing, rscale, rbound>>

\* the loop is finished
ScatterDone ==
    /\ pm_pc = "scatter"
    /\ pm_bi = Batch
    /\ pm_pc' = "masked"
    /\ UNCHANGED <<npoints, rsing, rscale, rbound, pmask, pm_bi>>

PmNext == SamplePoints \/ ZeroMask \/ DrawRandom \/ ComputeRBound \/ ScatterPoints
          \/ ScatterDone

(***************************************************************************)
(* Specifications.                                                         *)
(***************************************************************************)
MainIdle ==
    /\ pc = "idle"
    /\ args = None
    /\ out_dir_exists = FALSE
    /\ smirk_generator = FALSE
    /\ image = None
    /\ kpt_mediapipe = None
    /\ tform = None
    /\ cropped_image = None
    /\ cropped_kpt_mediapipe = None
    /\ rendered_img = None
    /\ grid = <<>>
    /\ reconstructed_img = None
    /\ steps = <<>>
    /\ makedirs_called = FALSE
    /\ written = None

CfIdle ==
    /\ cf_pc = "idle"
    /\ cf_frame = None
    /\ cf_landmarks = None
    /\ cf_scale = None
    /\ cf_image_size = None
    /\ cf_tform = None

PmIdle ==
    /\ pm_pc = "idle"
    /\ npoints = None
    /\ rsing = None
    /\ rscale = None
    /\ rbound = None
    /\ pmask = None
    /\ pm_bi = 0

\* one run of the script
Init == MainInit /\ CfIdle /\ PmIdle
Next == MainNext /\ UNCHANGED <<cf_vars, pm_vars>>
Spec == Init /\ [][Next]_vars

\* crop_face on arbitrary arguments
CropInit == CfInit /\ MainIdle /\ PmIdle
CropNext == CfNext /\ UNCHANGED <<main_vars, pm_vars>>
CropSpec == CropInit /\ [][CropNext]_vars

\* the point mask
MaskInit == PmInit /\ MainIdle /\ CfIdle
MaskNext == PmNext /\ UNCHANGED <<main_vars, cf_vars>>
MaskSpec == MaskInit /\ [][MaskNext]_vars

(***************************************************************************)
(* Properties.                                                             *)
(***************************************************************************)
Has(step) == \E i \in 1..Len(steps) : steps[i] = step
Count(step) == Cardinality({i \in 1..Len(steps) : steps[i] = step})
IsPrefix(a, b) == Len(a) <= Len(b) /\ SubSeq(b, 1, Len(a)) = a

\* the phase of a step in the order load, detect, crop, networks, composite, write
Phase(step) ==
    CASE step = "load_checkpoint" -> 1
      [] step = "detect_landmarks" -> 2
      [] step = "crop" -> 3
      [] step \in {"encoder", "flame", "renderer", "mask", "generator"} -> 4
      [] step = "composite" -> 5
      [] step = "write" -> 6

\* C1 as stated: in a run that wrote the image the phases follow one another
\* in the order load, detect, crop, networks, composite, write; in
\* particular no composite step precedes a network forward pass.
C1_AsClaimed ==
    pc = "done" =>
        \A i \in 1..Len(steps), j \in 1..Len(steps) :
            i < j => Phase(steps[i]) <= Phase(steps[j])

ExpectedSteps ==
    <<"load_checkpoint", "detect_landmarks">>
    \o (IF args.crop THEN <<"crop">> ELSE <<>>)
    \o <<"encoder", "flame", "renderer", "composite">>
    \o (IF args.use_smirk_generator THEN <<"mask", "generator", "composite">> ELSE <<>>)
    \o <<"write">>

\* C1 (amended): every run performs a prefix of: load the checkpoint, detect
\* landmarks, crop (only with --crop), encoder, FLAME, renderer, composite the
\* two-panel grid, and only with --use_smirk_generator build the generator
\* input, run the generator and composite the third panel, then write the
\* file; a run that wrote the image performed exactly that sequence, each
\* step once except the composite, which with the generator is done twice:
\* once before and once after the generator's forward pass.
C1_Order ==
    /\ IsPrefix(steps, ExpectedSteps)
    /\ pc = "done" => steps = ExpectedSteps

C1_Witness ==
    /\ pc = "done"
    /\ args.crop /\ args.use_smirk_generator
    /\ \E i \in 1..Len(steps) : steps[i] = "composite" /\ steps[i + 1] = "mask"

PanelContents == [i \in 1..Len(grid) |-> grid[i].content]

\* C2: in a run that wrote the image, the generator was constructed and run
\* exactly when --use_smirk_generator is set, and the written grid is input,
\* render, reconstruction with the flag and input, render without it.
C2_GeneratorOptional ==
    pc = "done" =>
        /\ smirk_generator <=> args.use_smirk_generator
        /\ Has("generator") <=> args.use_smirk_generator
        /\ written.panels = grid
        /\ PanelContents = IF args.use_smirk_generator
                           THEN <<"input", "render", "reconstruction">>
                           ELSE <<"input", "render">>

C2_Witness ==
    /\ pc = "done"
    /\ args.use_smirk_generator /\ ~args.crop /\ args.render_orig
    /\ Len(written.panels) = 3

NeedsLandmarks == args.crop \/ args.use_smirk_generator

Positions == {"load_checkpoint", "imread", "run_mediapipe", "crop", "preprocess",
              "encoder", "flame", "renderer", "grid", "generator",
              "generator_forward", "grid_reconstruction", "write", "done", "exited"}

\* C3: a run ends either by writing the file or by exit(); it writes the file
\* exactly when landmarks were found or neither --crop nor
\* --use_smirk_generator is set, and a run ended by exit() neither created
\* the output directory nor wrote a file.
C3_WrittenIffLandmarks ==
    /\ pc \in Positions
    /\ pc \in {"done", "exited"} =>
          ((pc = "done") <=> (kpt_mediapipe # None \/ ~NeedsLandmarks))
    /\ pc \in {"write", "done"} => (kpt_mediapipe # None \/ ~NeedsLandmarks)
    /\ pc = "done" => Count("write") = 1 /\ out_dir_exists
    /\ pc # "done" => ~Has("write") /\ ~makedirs_called /\ written = None

C3_Witness ==
    /\ pc = "exited"
    /\ args.crop /\ ~args.use_smirk_generator
    /\ ~out_dir_exists

\* C4: an exit with --crop runs no network on the image; an exit without
\* --crop (so with --use_smirk_generator) comes after the encoder, FLAME and
\* renderer passes and after the first two panels were composed, and before
\* the generator pass.
C4_ExitPoints ==
    pc = "exited" =>
        IF args.crop
        THEN /\ kpt_mediapipe = None
             /\ \A st \in {"encoder", "flame", "renderer", "generator"} : ~Has(st)
             /\ grid = <<>>
        ELSE /\ args.use_smirk_generator /\ kpt_mediapipe = None
             /\ \A st \in {"encoder", "flame", "renderer"} : Count(st) = 1
             /\ Count("composite") = 1
             /\ PanelContents = <<"input", "render">>
             /\ ~Has("generator")

C4_Witness ==
    /\ pc = "exited"
    /\ ~args.crop /\ args.use_smirk_generator
    /\ Len(grid) = 2

NumPanels == IF args.use_smirk_generator THEN 3 ELSE 2

BBox(landmarks) ==
    LET xs == {landmarks[k][1] : k \in 1..Len(landmarks)}
        ys == {landmarks[k][2] : k \in 1..Len(landmarks)}
        lo(S) == CHOOSE a \in S : \A b \in S : a <= b
        hi(S) == CHOOSE a \in S : \A b \in S : a >= b
    IN [left |-> lo(xs), right |-> hi(xs), top |-> lo(ys), bottom |-> hi(ys)]

SquareCentre2(landmarks) ==
    LET b == BBox(landmarks) IN <<b.left + b.right, b.top + b.bottom>>

SquareSize(landmarks, scale10) ==
    LET b == BBox(landmarks)
    IN (scale10 * ((b.right - b.left) + (b.bottom - b.top))) \div 20

\* the point (c.x + sx * s / 2, c.y + sy * s / 2)
Corner(landmarks, scale10, sx, sy) ==
    LET c2 == SquareCentre2(landmarks)
        s == SquareSize(landmarks, scale10)
    IN NormPoint([x |-> c2[1] + sx * s, y |-> c2[2] + sy * s, d |-> 2])

\* C6: crop_face returns the transform that maps the corners (c - s/2, c - s/2),
\* (c.x - s/2, c.y + s/2), (c.x + s/2, c.y - s/2) of the crop square to
\* (0, 0), (0, image_size - 1), (image_size - 1, 0), whenever s > 0, and the
\* result is the same for every frame.
C6_CropTransform ==
    (cf_pc = "returned" /\ SquareSize(cf_landmarks, cf_scale) > 0) =>
        /\ cf_tform.d # 0
        /\ Apply(cf_tform, Corner(cf_landmarks, cf_scale, -1, -1)) = Pt(0, 0)
        /\ Apply(cf_tform, Corner(cf_landmarks, cf_scale, -1, 1))
               = Pt(0, cf_image_size - 1)
        /\ Apply(cf_tform, Corner(cf_landmarks, cf_scale, 1, -1))
               = Pt(cf_image_size - 1, 0)
        /\ \A f \in Frames :
               crop_face(f, cf_landmarks, cf_scale, cf_image_size) = cf_tform

C6_Witness ==
    /\ cf_pc = "returned"
    /\ SquareSize(cf_landmarks, cf_scale) > 1
    /\ cf_scale = CropScaleTenths
    /\ cf_landmarks[1] # cf_landmarks[2]
    /\ cf_tform.m00 * 2 = cf_tform.d * (cf_image_size - 1)

\* the integer positions of the original image inside the crop square
SquarePositions ==
    LET c2 == SquareCentre2(kpt_mediapipe)
        s == SquareSize(kpt_mediapipe, CropScaleTenths)
    IN {p \in ((0 - MaxCoord)..(2 * MaxCoord)) \X ((0 - MaxCoord)..(2 * MaxCoord)) :
           /\ c2[1] - s <= 2 * p[1] /\ 2 * p[1] <= c2[1] + s
           /\ c2[2] - s <= 2 * p[2] /\ 2 * p[2] <= c2[2] + s}

InsideCrop(q) ==
    /\ q.d > 0
    /\ 0 <= q.x /\ q.x <= (image_size - 1) * q.d
    /\ 0 <= q.y /\ q.y <= (image_size - 1) * q.d

\* panel shows at the original position p the content found at tform(p) of the
\* 224 x 224 result, the crop position that shows the original pixel p
PastedBack(panel) ==
    \A p \in SquarePositions :
        LET q == Apply(panel.via, Pt(p[1], p[2]))
        IN /\ q = Apply(tform, Pt(p[1], p[2]))
           /\ InsideCrop(q)
           /\ Apply(cropped_image.via, q) = Pt(p[1], p[2])

\* C7: with --crop and --render_orig, for every original position p inside the
\* crop square the full-size render panel (and the reconstruction panel) shows
\* at p the 224 x 224 result's content at tform(p), which is where the crop
\* shows the original pixel p and where a landmark at p was placed.
C7_UncropInverse ==
    (args.crop /\ args.render_orig /\ Len(grid) >= 2 /\ tform.d # 0) =>
        /\ cropped_image.content = "input" /\ cropped_image.h = 224
        /\ \A i \in 2..Len(grid) : PastedBack(grid[i])
        /\ \A k \in 1..Len(kpt_mediapipe) :
              LET p == Pt(kpt_mediapipe[k][1], kpt_mediapipe[k][2])
              IN /\ cropped_kpt_mediapipe[k] = Apply(grid[2].via, p)
                 /\ Apply(cropped_image.via, cropped_kpt_mediapipe[k]) = p

C7_Witness ==
    /\ pc = "done"
    /\ args.crop /\ args.render_orig /\ args.use_smirk_generator
    /\ tform.d # 0
    /\ Cardinality(SquarePositions) >= 4
    /\ Len(grid) = 3

\* C8: rbound[bi] is at most the number N of sampled points and at least
\* floor(N / mask_ratio_mul^2); after the loop pmask is 1 exactly at the
\* (row y, column x) cells of the first rbound[bi] points and 0 elsewhere.
C8_PointMask ==
    /\ pm_pc \in {"scatter", "masked"} =>
          \A bi \in BatchIdx :
              /\ rbound[bi] <= NumSampled
              /\ rbound[bi] >= NumSampled \div (mask_ratio_mul * mask_ratio_mul)
              /\ Len(SliceTo(npoints[bi], rbound[bi])) = rbound[bi]
    /\ pm_pc = "masked" =>
          \A bi \in BatchIdx : \A c \in MaskCells :
              pmask[bi][c] =
                  IF \E k \in 1..rbound[bi] :
                         k <= NumSampled /\ npoints[bi][k] = <<c[2], c[1]>>
                  THEN 1 ELSE 0

C8_Witness ==
    /\ pm_pc = "masked"
    /\ NumSampled >= mask_ratio_mul * mask_ratio_mul
    /\ rsing[0] = -1 /\ rscale[0] > RandRes
    /\ rbound[0] >= 1 /\ rbound[0] < NumSampled
    /\ \E c \in MaskCells : pmask[0][c] = 0
    /\ \E c \in MaskCells : pmask[0][c] = 1

====
